---- MODULE Spec2Model ----
(***************************************************************************)
(* Model of the final snapshot of the wgpu demo: the application shell     *)
(* (src/src/app.rs), the render state (src/src/gpu/gpu_state.rs) and the   *)
(* shader loader (src/src/gpu/utils.rs).                                   *)
(*                                                                         *)
(* Time is in milliseconds.  Angles are fixed-point, in units of 1e-4      *)
(* radian; the camera distance is fixed-point, in units of 1e-3.           *)
(***************************************************************************)
EXTENDS Integers, Sequences, FiniteSets, TLC

VARIABLES
    now,            \* the monotonic clock read by Instant::now()
    started,        \* new_events(StartCause::Init) has run
    resumes,        \* number of resumed() calls so far
    window,         \* App.window: 0 is None, n > 0 is Some(n-th window created)
    windowsCreated, \* number of event_loop.create_window calls so far
    windowSize,     \* inner size of the current window, as the OS has it
    gpu,            \* App.gpu: NoGpu is None, otherwise the GpuState record
    pipelinesCreated, \* number of create_pipeline calls so far
    shader_rx,      \* App.shader_rx: file-system events sent and not yet received
    sent,           \* number of events the watcher has sent so far
    last_reload,    \* App.last_reload
    files,          \* which files exist in src/shaders
    status,         \* "running", "exited" (event_loop.exit) or "panicked"
    panicMsg,       \* the message of the panic, "" while none
    redraw,         \* a redraw request is pending
    log,            \* history: one entry per file-system event received
    closeRequested, \* history: a CloseRequested event has been dispatched
    lastRender      \* history: what the last render call saw

vars == <<now, started, resumes, window, windowsCreated, windowSize, gpu,
          pipelinesCreated, shader_rx, sent, last_reload, files, status,
          panicMsg, redraw, log, closeRequested, lastRender>>

(***************************************************************************)
(* Bounds of the model.                                                    *)
(***************************************************************************)
MaxEvents  == 2       \* file-system events sent over a run
MaxTime    == 400     \* the clock stops advancing here
MaxResumes == 2       \* resumed() calls over a run
TickSteps  == {100, 201}   \* how far the clock moves between two callbacks
DrainSteps == {0, 201}     \* how far it moves between two events of one drain
MaxYaw      == 20000  \* |yaw| stays below this (1e-4 radian)
MaxDistance == 7000   \* the camera is not zoomed out past this (1e-3)
MaxSources  == 2      \* distinct texts the shader files take over a run

(***************************************************************************)
(* Program constants.                                                      *)
(***************************************************************************)
DEBOUNCE_MS      == 200     \* Duration::from_millis(200)
INITIAL_PAST_MS  == 1000    \* Duration::from_secs(1)
INITIAL_WIDTH    == 800
INITIAL_HEIGHT   == 400

NoGpu == [none |-> TRUE]
NoRender == [none |-> TRUE]

\* notify::EventKind, as far as the filter of new_events tells kinds apart
EventKinds == {"ModifyData", "Create", "Remove"}
\* files of src/shaders an event can be about
EventPaths == {"cube.vert.wgsl", "notes.txt"}
\* the events the watcher sends
FsEvents == [kind : {"ModifyData"}, path : EventPaths]
              \cup [kind : EventKinds, path : {"cube.vert.wgsl"}]

\* a filter that lets every kind of event through
IsModifyData_any_kind(ev) == ev.kind \in EventKinds

\* if let EventKind::Modify(ModifyKind::Data(_)) = ev.kind
IsModifyData(ev) == ev.kind = "ModifyData"

\* the debounce with the window mistyped as 20 ms
DebouncePassed_20ms(t, last) == t - last > 20

\* the debounce with the window taken for the one second of App::default
DebouncePassed_1s(t, last) == t - last > INITIAL_PAST_MS

\* now.duration_since(self.last_reload) > Duration::from_millis(200)
DebouncePassed(t, last) == t - last > DEBOUNCE_MS

\* read_dir("src/shaders") ... any(|e| extension == Some("wgsl")); the
\* directory holds no .wgsl file besides the two shaders
HasShader(fs) == fs.vert \/ fs.frag

\* fs::read_to_string(path).expect("failed to read shader file"), for the two
\* paths reload_shader_pipeline and create_gpu_state load
ShadersReadable(fs) == fs.vert /\ fs.frag

PanicUnwrapNone == "called Option::unwrap on a None value"
PanicReadShader == "failed to read shader file"
PanicAcquire    == "called Result::unwrap on an Err value"


(***************************************************************************)
(* The render state.                                                       *)
(***************************************************************************)
PITCH_LIMIT      == 15533   \* 89.0_f32.to_radians(), in 1e-4 radian
SENSITIVITY      == 100     \* 0.01 radian per pixel, in 1e-4 radian
MIN_DISTANCE     == 100     \* 0.1, in 1e-3
ZOOM_SPEED_PCT   == 10      \* zoom_speed 0.1, in percent per line
PIXELS_PER_LINE  == 120     \* pixel scroll deltas are divided by 120.0
NUM_INDICES      == 36      \* vertex::INDICES.len(): 6 faces of 2 triangles

\* Camera::default(): yaw 0, pitch 0, distance 5
CameraDefault == [yaw |-> 0, pitch |-> 0, distance |-> 5000]

\* wgpu::SurfaceConfiguration { width: window.inner_size().width, height: .. }
SurfaceConfig(size) == [width |-> size.width, height |-> size.height]

\* create_depth_view(device, config): a depth texture of the configuration's size
create_depth_view(config) == [width |-> config.width, height |-> config.height]

\* load_shader(label, path, device): the module compiled from the text the
\* shader files hold
load_shader(label, fs) == [label |-> label, source |-> fs.text]

\* the bind group layout built in create_gpu_state, lines 99-155
uniform_bind_group_layout_init ==
    << [binding |-> 0, visibility |-> "VERTEX",   ty |-> "Uniform", min_binding_size |-> 64],
       [binding |-> 1, visibility |-> "VERTEX",   ty |-> "Uniform", min_binding_size |-> 64],
       [binding |-> 2, visibility |-> "FRAGMENT", ty |-> "Uniform", min_binding_size |-> 32],
       [binding |-> 3, visibility |-> "FRAGMENT", ty |-> "Texture", min_binding_size |-> 0],
       [binding |-> 4, visibility |-> "FRAGMENT", ty |-> "Sampler", min_binding_size |-> 0] >>

\* a reload layout with the light block taken for a bare vec3 and its padding
uniform_bind_group_layout_reload_16 ==
    << [binding |-> 0, visibility |-> "VERTEX",   ty |-> "Uniform", min_binding_size |-> 64],
       [binding |-> 1, visibility |-> "VERTEX",   ty |-> "Uniform", min_binding_size |-> 64],
       [binding |-> 2, visibility |-> "FRAGMENT", ty |-> "Uniform", min_binding_size |-> 16],
       [binding |-> 3, visibility |-> "FRAGMENT", ty |-> "Texture", min_binding_size |-> 0],
       [binding |-> 4, visibility |-> "FRAGMENT", ty |-> "Sampler", min_binding_size |-> 0] >>

\* the bind group layout built in reload_shader_pipeline, lines 366-422
uniform_bind_group_layout_reload ==
    << [binding |-> 0, visibility |-> "VERTEX",   ty |-> "Uniform", min_binding_size |-> 64],
       [binding |-> 1, visibility |-> "VERTEX",   ty |-> "Uniform", min_binding_size |-> 64],
       [binding |-> 2, visibility |-> "FRAGMENT", ty |-> "Uniform", min_binding_size |-> 32],
       [binding |-> 3, visibility |-> "FRAGMENT", ty |-> "Texture", min_binding_size |-> 0],
       [binding |-> 4, visibility |-> "FRAGMENT", ty |-> "Sampler", min_binding_size |-> 0] >>

\* the three uniform buffers with the byte size of their contents:
\* [[f32;4];4], [[f32;4];4] and [[f32;4];2]
UBOs ==
    [ camera_buffer |-> [label |-> "Camera UBO", size |-> 64],
      model_buffer  |-> [label |-> "Model UBO",  size |-> 64],
      light_buffer  |-> [label |-> "Light UBO",  size |-> 32] ]

\* the bind group of create_gpu_state, lines 239-265
ubo_bind_group(layout, ubos) ==
    [ layout  |-> layout,
      entries |-> << [binding |-> 0, ty |-> "Uniform", size |-> ubos.camera_buffer.size],
                     [binding |-> 1, ty |-> "Uniform", size |-> ubos.model_buffer.size],
                     [binding |-> 2, ty |-> "Uniform", size |-> ubos.light_buffer.size],
                     [binding |-> 3, ty |-> "Texture", size |-> 0],
                     [binding |-> 4, ty |-> "Sampler", size |-> 0] >> ]

\* create_pipeline(device, config, layout, vs, fs): a new pipeline object,
\* named by n, for the format of the surface configuration
create_pipeline(n, layout, vs, fs) ==
    [ id |-> n, layout |-> layout, format |-> "surface_caps.formats[0]",
      vs |-> vs, fs |-> fs ]

\* The GpuState that create_gpu_state returns for window w of inner size size
\* when adapter, device and the shader files are available.  Surface, device
\* and queue are named by the window they were made for, buffers and bind
\* group by their labels.
create_gpu_state(w, size, n, fs) ==
    [ surface        |-> w,
      device         |-> w,
      queue          |-> w,
      config         |-> SurfaceConfig(size),
      pipeline       |-> create_pipeline(n, uniform_bind_group_layout_init,
                                         load_shader("Cube VS", fs),
                                         load_shader("Cube FS", fs)),
      vertex_buffer  |-> "Cube Vertex Buffer",
      index_buffer   |-> "Cube Index Buffer",
      num_indices    |-> NUM_INDICES,
      ubos           |-> UBOs,
      ubo_bind_group |-> ubo_bind_group(uniform_bind_group_layout_init, UBOs),
      depth_view     |-> create_depth_view(SurfaceConfig(size)),
      camera         |-> CameraDefault,
      dragging       |-> FALSE,
      last_mouse_pos |-> <<0, 0>> ]

\* a reload that builds the whole render state anew
reload_shader_pipeline_rebuild(g, n, fs) ==
    create_gpu_state(g.surface, g.config, n, fs)

\* a reload that adds its bindings to those of the pipeline in place
reload_shader_pipeline_appending(g, n, fs) ==
    [g EXCEPT !.pipeline =
        create_pipeline(n, g.pipeline.layout \o uniform_bind_group_layout_reload,
                        load_shader("Cube VS", fs), load_shader("Cube FS", fs))]

\* GpuState::reload_shader_pipeline once both shader files have been read:
\* self.pipeline = create_pipeline(..)
reload_shader_pipeline(g, n, fs) ==
    [g EXCEPT !.pipeline =
        create_pipeline(n, uniform_bind_group_layout_reload,
                        load_shader("Cube VS", fs), load_shader("Cube FS", fs))]

(***************************************************************************)
(* new_events: the drain of the file-system event queue.  a is the part of *)
(* the application the drain touches, ev the event received, d the time    *)
(* that has passed since the clock was last read.                          *)
(***************************************************************************)
Panic(a, msg) == [a EXCEPT !.status = "panicked", !.panicMsg = msg]

Logged(a, ev, t, step) ==
    [a EXCEPT !.log = Append(@, [ev |-> ev, t |-> t, step |-> step,
                                 readable |-> ShadersReadable(a.files),
                                 has_gpu |-> a.gpu # NoGpu])]

\* a debounce clock read off the event: the time the watcher sent it
Instant_now_of_event(a, ev, d) == ev.at

\* let now = Instant::now(), d after the clock was last read
Instant_now(a, ev, d) == a.now + d

\* an event loop body in which a discarded event restarts the window
HandleFsEvent_extend_window(a, ev, d) ==
    LET t  == Instant_now(a, ev, d)
        a0 == [a EXCEPT !.now = a.now + d]
    IN  IF ~IsModifyData(ev)
        THEN Logged(a0, ev, a0.now, "filtered")
        ELSE IF ~DebouncePassed(t, a.last_reload)
        THEN Logged([a0 EXCEPT !.last_reload = t], ev, a0.now, "debounced")
        ELSE LET a1 == [a0 EXCEPT !.last_reload = t]
             IN  IF ~HasShader(a.files)
                 THEN Logged(a1, ev, a0.now, "skipped")
                 ELSE IF a.gpu = NoGpu
                 THEN Panic(Logged(a1, ev, a0.now, "unwrap_gpu"), PanicUnwrapNone)
                 ELSE IF ~ShadersReadable(a.files)
                 THEN Panic(Logged(a1, ev, a0.now, "called"), PanicReadShader)
                 ELSE IF a.window = 0
                 THEN Panic([Logged(a1, ev, a0.now, "called") EXCEPT
                                !.gpu = reload_shader_pipeline(a.gpu, a.pipelinesCreated + 1, a.files),
                                !.pipelinesCreated = @ + 1],
                            PanicUnwrapNone)
                 ELSE [Logged(a1, ev, a0.now, "called") EXCEPT
                          !.gpu = reload_shader_pipeline(a.gpu, a.pipelinesCreated + 1, a.files),
                          !.pipelinesCreated = @ + 1,
                          !.redraw = TRUE]

\* an event loop body that sets last_reload once a shader file is found
HandleFsEvent_stamp_after_check(a, ev, d) ==
    LET t  == Instant_now(a, ev, d)
        a0 == [a EXCEPT !.now = a.now + d]
    IN  IF ~IsModifyData(ev)
        THEN Logged(a0, ev, a0.now, "filtered")
        ELSE IF ~DebouncePassed(t, a.last_reload)
        THEN Logged(a0, ev, a0.now, "debounced")
        ELSE LET a1 == [a0 EXCEPT !.last_reload = t]
             IN  IF ~HasShader(a.files)
                 THEN Logged(a0, ev, a0.now, "skipped")
                 ELSE IF a.gpu = NoGpu
                 THEN Panic(Logged(a1, ev, a0.now, "unwrap_gpu"), PanicUnwrapNone)
                 ELSE IF ~ShadersReadable(a.files)
                 THEN Panic(Logged(a1, ev, a0.now, "called"), PanicReadShader)
                 ELSE IF a.window = 0
                 THEN Panic([Logged(a1, ev, a0.now, "called") EXCEPT
                                !.gpu = reload_shader_pipeline(a.gpu, a.pipelinesCreated + 1, a.files),
                                !.pipelinesCreated = @ + 1],
                            PanicUnwrapNone)
                 ELSE [Logged(a1, ev, a0.now, "called") EXCEPT
                          !.gpu = reload_shader_pipeline(a.gpu, a.pipelinesCreated + 1, a.files),
                          !.pipelinesCreated = @ + 1,
                          !.redraw = TRUE]

\* the body of the while-let loop of new_events, lines 61-79
HandleFsEvent(a, ev, d) ==
    LET t  == Instant_now(a, ev, d)
        a0 == [a EXCEPT !.now = a.now + d]
    IN  IF ~IsModifyData(ev)
        THEN Logged(a0, ev, a0.now, "filtered")
        ELSE IF ~DebouncePassed(t, a.last_reload)
        THEN Logged(a0, ev, a0.now, "debounced")
        ELSE LET a1 == [a0 EXCEPT !.last_reload = t]
             IN  IF ~HasShader(a.files)
                 THEN Logged(a1, ev, a0.now, "skipped")
                 ELSE IF a.gpu = NoGpu
                 THEN Panic(Logged(a1, ev, a0.now, "unwrap_gpu"), PanicUnwrapNone)
                 ELSE IF ~ShadersReadable(a.files)
                 THEN Panic(Logged(a1, ev, a0.now, "called"), PanicReadShader)
                 ELSE IF a.window = 0
                 THEN Panic([Logged(a1, ev, a0.now, "called") EXCEPT
                                !.gpu = reload_shader_pipeline(a.gpu, a.pipelinesCreated + 1, a.files),
                                !.pipelinesCreated = @ + 1],
                            PanicUnwrapNone)
                 ELSE [Logged(a1, ev, a0.now, "called") EXCEPT
                          !.gpu = reload_shader_pipeline(a.gpu, a.pipelinesCreated + 1, a.files),
                          !.pipelinesCreated = @ + 1,
                          !.redraw = TRUE]

\* while let Ok(ev) = self.shader_rx.try_recv() { .. }: a panic ends the loop
RECURSIVE Drain(_, _)
Drain(a, ds) ==
    IF a.shader_rx = <<>> \/ a.status # "running"
    THEN a
    ELSE Drain(HandleFsEvent([a EXCEPT !.shader_rx = Tail(@)], Head(a.shader_rx), Head(ds)),
               Tail(ds))

AppPart ==
    [ now |-> now, last_reload |-> last_reload, gpu |-> gpu,
      pipelinesCreated |-> pipelinesCreated, shader_rx |-> shader_rx,
      files |-> files, window |-> window, status |-> status,
      panicMsg |-> panicMsg, redraw |-> redraw, log |-> log ]

SeqsOfLen(S, n) == [1..n -> S]

\* App::new_events(event_loop, cause)
NewEvents(cause) ==
    /\ status = "running"
    /\ started = (cause # "Init")
    /\ \E ds \in SeqsOfLen(DrainSteps, Len(shader_rx)) :
         LET a == Drain(AppPart, ds)
         IN  /\ a.now <= MaxTime
             /\ now' = a.now
             /\ last_reload' = a.last_reload
             /\ gpu' = a.gpu
             /\ pipelinesCreated' = a.pipelinesCreated
             /\ shader_rx' = a.shader_rx
             /\ status' = a.status
             /\ panicMsg' = a.panicMsg
             /\ redraw' = a.redraw
             /\ log' = a.log
             /\ IF a.status = "running" /\ cause = "Init"
                THEN /\ window' = windowsCreated + 1
                     /\ windowsCreated' = windowsCreated + 1
                     /\ windowSize' = [width |-> INITIAL_WIDTH, height |-> INITIAL_HEIGHT]
                     /\ started' = TRUE
                ELSE UNCHANGED <<window, windowsCreated, windowSize, started>>
    /\ UNCHANGED <<closeRequested, resumes, sent, files, lastRender>>


(***************************************************************************)
(* resumed: a new window and, on it, a new render state.                   *)
(***************************************************************************)
\* request_adapter / request_device: Ok or Err, as the platform decides
AdapterResults == {"Ok", "Err"}

\* App::resumed(event_loop)
Resumed(adapter) ==
    /\ status = "running"
    /\ started
    /\ resumes < MaxResumes
    /\ resumes' = resumes + 1
    /\ window' = windowsCreated + 1
    /\ windowsCreated' = windowsCreated + 1
    /\ windowSize' = [width |-> INITIAL_WIDTH, height |-> INITIAL_HEIGHT]
    /\ IF adapter = "Err"
       THEN \* log::error!(..); return
            UNCHANGED <<gpu, pipelinesCreated, status, panicMsg, redraw>>
       ELSE IF ~ShadersReadable(files)
       THEN \* load_shader(..) in create_gpu_state
            /\ status' = "panicked"
            /\ panicMsg' = PanicReadShader
            /\ UNCHANGED <<gpu, pipelinesCreated, redraw>>
       ELSE /\ gpu' = create_gpu_state(windowsCreated + 1,
                         [width |-> INITIAL_WIDTH, height |-> INITIAL_HEIGHT],
                         pipelinesCreated + 1, files)
            /\ pipelinesCreated' = pipelinesCreated + 1
            /\ redraw' = TRUE
            /\ UNCHANGED <<status, panicMsg>>
    /\ UNCHANGED <<closeRequested, now, started, shader_rx, sent, last_reload, files, log, lastRender>>

(***************************************************************************)
(* window_event.  Every arm sits inside `if let Some(gpu) = self.gpu`.     *)
(***************************************************************************)
\* a window event can be dispatched: the loop runs and resumed() has run
CanDispatch == status = "running" /\ resumes > 0 /\ window # 0

\* WindowEvent::CloseRequested => event_loop.exit()
CloseRequested ==
    /\ CanDispatch
    /\ closeRequested' = TRUE
    /\ status' = IF gpu # NoGpu THEN "exited" ELSE status
    /\ UNCHANGED <<now, started, resumes, window, windowsCreated, windowSize, gpu,
                   pipelinesCreated, shader_rx, sent, last_reload, files,
                   panicMsg, redraw, log, lastRender>>

\* wgpu::SurfaceError, or Ok, from surface.get_current_texture()
AcquireResults == {"Ok", "Timeout", "Outdated", "Lost", "OutOfMemory"}

\* the calls of render on the surface, the encoder, the queue and the window
\* in the order it makes them; a failed acquisition ends it at the first
render_steps(g, acquired) ==
    IF acquired # "Ok"
    THEN << [op |-> "get_current_texture"] >>
    ELSE << [op |-> "get_current_texture"],
            [op |-> "render_pass", clear_color |-> "RED", clear_depth |-> 1,
             pipeline |-> g.pipeline, bind_group |-> g.ubo_bind_group,
             draws |-> << [first |-> 0, end |-> g.num_indices] >>],
            [op |-> "write_buffer", buffer |-> g.ubos.camera_buffer, camera |-> g.camera],
            [op |-> "submit"],
            [op |-> "present"],
            [op |-> "request_redraw"] >>

\* a render that writes the camera block once the frame is presented
render_write_last(g, size, acquired) ==
    [ acquired |-> acquired,
      config   |-> g.config,
      depth    |-> g.depth_view,
      window   |-> size,
      pipeline |-> g.pipeline,
      camera   |-> g.camera,
      steps    |-> IF acquired # "Ok"
                   THEN render_steps(g, acquired)
                   ELSE << render_steps(g, acquired)[1], render_steps(g, acquired)[2],
                           render_steps(g, acquired)[4], render_steps(g, acquired)[5],
                           render_steps(g, acquired)[3], render_steps(g, acquired)[6] >> ]

\* GpuState::render(&self.window): what the call saw and the calls it made
render(g, size, acquired) ==
    [ acquired |-> acquired,
      config   |-> g.config,
      depth    |-> g.depth_view,
      window   |-> size,
      pipeline |-> g.pipeline,
      camera   |-> g.camera,
      steps    |-> render_steps(g, acquired) ]

\* a redraw handler whose render does not ask for the next frame
RedrawRequested_no_request(acquired) ==
    /\ CanDispatch
    /\ IF gpu = NoGpu
       THEN /\ redraw' = FALSE
            /\ UNCHANGED <<status, panicMsg, lastRender>>
       ELSE /\ lastRender' = render(gpu, windowSize, acquired)
            /\ redraw' = FALSE
            /\ IF acquired # "Ok"
               THEN /\ status' = "panicked"
                    /\ panicMsg' = PanicAcquire
               ELSE UNCHANGED <<status, panicMsg>>
    /\ UNCHANGED <<closeRequested, now, started, resumes, window, windowsCreated, windowSize, gpu,
                   pipelinesCreated, shader_rx, sent, last_reload, files, log>>

\* WindowEvent::RedrawRequested => gpu.render(&self.window)
RedrawRequested(acquired) ==
    /\ CanDispatch
    /\ IF gpu = NoGpu
       THEN /\ redraw' = FALSE
            /\ UNCHANGED <<status, panicMsg, lastRender>>
       ELSE /\ lastRender' = render(gpu, windowSize, acquired)
            /\ IF acquired # "Ok"
               THEN \* self.surface.get_current_texture().unwrap()
                    /\ status' = "panicked"
                    /\ panicMsg' = PanicAcquire
                    /\ redraw' = FALSE
               ELSE \* .. submit, present, window.request_redraw()
                    /\ redraw' = TRUE
                    /\ UNCHANGED <<status, panicMsg>>
    /\ UNCHANGED <<closeRequested, now, started, resumes, window, windowsCreated, windowSize, gpu,
                   pipelinesCreated, shader_rx, sent, last_reload, files, log>>

\* inner sizes the user can give the window
WindowSizes == { [width |-> INITIAL_WIDTH, height |-> INITIAL_HEIGHT],
                 [width |-> 1024, height |-> 768] }

\* WindowEvent::Resized(size): no arm of the match, it falls to `_ => {}`
Resized(size) ==
    /\ CanDispatch
    /\ size # windowSize
    /\ windowSize' = size
    /\ UNCHANGED <<closeRequested, now, started, resumes, window, windowsCreated, gpu,
                   pipelinesCreated, shader_rx, sent, last_reload, files, status,
                   panicMsg, redraw, log, lastRender>>


(***************************************************************************)
(* Mouse input: the orbit camera.                                          *)
(***************************************************************************)
ElementStates == {"Pressed", "Released"}
MouseButtons  == {"Left", "Right"}

\* the MouseInput arm without the test of the button
MouseInput_any_button(state, button) ==
    /\ CanDispatch
    /\ gpu' = IF gpu # NoGpu
              THEN [gpu EXCEPT !.dragging = (state = "Pressed")]
              ELSE gpu
    /\ UNCHANGED <<closeRequested, now, started, resumes, window, windowsCreated, windowSize,
                   pipelinesCreated, shader_rx, sent, last_reload, files, status,
                   panicMsg, redraw, log, lastRender>>

\* WindowEvent::MouseInput { state, button, .. }
MouseInput(state, button) ==
    /\ CanDispatch
    /\ gpu' = IF gpu # NoGpu /\ button = "Left"
              THEN [gpu EXCEPT !.dragging = (state = "Pressed")]
              ELSE gpu
    /\ UNCHANGED <<closeRequested, now, started, resumes, window, windowsCreated, windowSize,
                   pipelinesCreated, shader_rx, sent, last_reload, files, status,
                   panicMsg, redraw, log, lastRender>>

\* a clamp that forgets the upper limit
clamp_lower_only(v, lo, hi) == IF v < lo THEN lo ELSE v

\* f32::clamp(min, max)
clamp(v, lo, hi) == IF v < lo THEN lo ELSE IF v > hi THEN hi ELSE v

\* cursor coordinates (pixels) the events carry
CursorXs == {0, 100}
CursorYs == {0, 200}

\* the CursorMoved arm without the test of the drag flag
cursor_moved_always(g, x, y) ==
    LET delta_x == g.last_mouse_pos[1] - x
        delta_y == g.last_mouse_pos[2] - y
    IN  [g EXCEPT !.camera.yaw = @ - delta_x * SENSITIVITY,
                  !.camera.pitch = clamp(@ - delta_y * SENSITIVITY, -PITCH_LIMIT, PITCH_LIMIT),
                  !.last_mouse_pos = <<x, y>>]

\* the CursorMoved arm with the yaw turning the other way
cursor_moved_yaw_plus(g, x, y) ==
    LET delta_x == g.last_mouse_pos[1] - x
        delta_y == g.last_mouse_pos[2] - y
        cam == IF g.dragging
               THEN [g.camera EXCEPT
                       !.yaw = @ + delta_x * SENSITIVITY,
                       !.pitch = clamp(@ - delta_y * SENSITIVITY, -PITCH_LIMIT, PITCH_LIMIT)]
               ELSE g.camera
    IN  [g EXCEPT !.camera = cam, !.last_mouse_pos = <<x, y>>]

\* a cursor arm that notes the position only while the flag is clear
cursor_moved_noted_outside_drag(g, x, y) ==
    LET delta_x == g.last_mouse_pos[1] - x
        delta_y == g.last_mouse_pos[2] - y
    IN  IF g.dragging
        THEN [g EXCEPT !.camera = [g.camera EXCEPT
                          !.yaw = @ - delta_x * SENSITIVITY,
                          !.pitch = clamp(@ - delta_y * SENSITIVITY, -PITCH_LIMIT, PITCH_LIMIT)]]
        ELSE [g EXCEPT !.last_mouse_pos = <<x, y>>]

\* the CursorMoved arm, lines 126-137, on the render state g
cursor_moved(g, x, y) ==
    LET delta_x == g.last_mouse_pos[1] - x
        delta_y == g.last_mouse_pos[2] - y
        cam == IF g.dragging
               THEN [g.camera EXCEPT
                       !.yaw = @ - delta_x * SENSITIVITY,
                       !.pitch = clamp(@ - delta_y * SENSITIVITY, -PITCH_LIMIT, PITCH_LIMIT)]
               ELSE g.camera
    IN  [g EXCEPT !.camera = cam, !.last_mouse_pos = <<x, y>>]

\* WindowEvent::CursorMoved { position, .. }
CursorMoved(x, y) ==
    /\ CanDispatch
    /\ gpu' = IF gpu # NoGpu THEN cursor_moved(gpu, x, y) ELSE gpu
    /\ gpu # NoGpu => gpu'.camera.yaw \in -MaxYaw..MaxYaw
    /\ UNCHANGED <<closeRequested, now, started, resumes, window, windowsCreated, windowSize,
                   pipelinesCreated, shader_rx, sent, last_reload, files, status,
                   panicMsg, redraw, log, lastRender>>

\* MouseScrollDelta: LineDelta(_, y) in lines, PixelDelta(pos) in pixels
ScrollDeltas == [type : {"LineDelta"}, y : {-10, -1, 1, 10, 20}]
                  \cup [type : {"PixelDelta"}, y : {-120, 600}]

\* raw_scroll, in 1/120 line: y for a line delta, pos.y / 120.0 for a pixel delta
raw_scroll(delta) == IF delta.type = "LineDelta" THEN delta.y * PIXELS_PER_LINE ELSE delta.y

Max(a, b) == IF a >= b THEN a ELSE b

\* the zoom without the floor at 0.1
mouse_wheel_unclamped(g, delta) ==
    LET scale_num == 100 * PIXELS_PER_LINE - raw_scroll(delta) * ZOOM_SPEED_PCT
        scale_den == 100 * PIXELS_PER_LINE
    IN  [g EXCEPT !.camera.distance = (@ * scale_num) \div scale_den]

\* the zoom with the direction of the wheel inverted
mouse_wheel_inverted(g, delta) ==
    LET scale_num == 100 * PIXELS_PER_LINE + raw_scroll(delta) * ZOOM_SPEED_PCT
        scale_den == 100 * PIXELS_PER_LINE
    IN  [g EXCEPT !.camera.distance =
            Max((@ * scale_num) \div scale_den, MIN_DISTANCE)]

\* the MouseWheel arm, lines 139-150: distance = (distance * scale).max(0.1)
\* with scale = 1.0 - raw_scroll * zoom_speed
mouse_wheel(g, delta) ==
    LET scale_num == 100 * PIXELS_PER_LINE - raw_scroll(delta) * ZOOM_SPEED_PCT
        scale_den == 100 * PIXELS_PER_LINE
    IN  [g EXCEPT !.camera.distance =
            Max((@ * scale_num) \div scale_den, MIN_DISTANCE)]

\* the scroll deltas tried together with drags
CameraScrollDeltas == { [type |-> "LineDelta", y |-> 20], [type |-> "LineDelta", y |-> -10] }

\* WindowEvent::MouseWheel { delta, .. }
MouseWheel(delta) ==
    /\ CanDispatch
    /\ IF gpu # NoGpu
       THEN /\ gpu' = mouse_wheel(gpu, delta)
            /\ gpu'.camera.distance <= MaxDistance
            /\ redraw' = TRUE
       ELSE UNCHANGED <<gpu, redraw>>
    /\ UNCHANGED <<closeRequested, now, started, resumes, window, windowsCreated, windowSize,
                   pipelinesCreated, shader_rx, sent, last_reload, files, status,
                   panicMsg, log, lastRender>>

(***************************************************************************)
(* The environment: the clock, the watcher thread, the shader directory.   *)
(***************************************************************************)
Tick(d) ==
    /\ status = "running"
    /\ now + d <= MaxTime
    /\ now' = now + d
    /\ UNCHANGED <<started, resumes, window, windowsCreated, windowSize, gpu,
                   pipelinesCreated, shader_rx, sent, last_reload, files, status,
                   panicMsg, redraw, log, closeRequested, lastRender>>

\* the watcher callback of App::default: let _ = tx.send(event)
WatcherSend(ev) ==
    /\ status = "running"
    /\ sent < MaxEvents
    /\ sent' = sent + 1
    /\ shader_rx' = Append(shader_rx, ev)
    /\ UNCHANGED <<now, started, resumes, window, windowsCreated, windowSize, gpu,
                   pipelinesCreated, last_reload, files, status, panicMsg, redraw,
                   log, closeRequested, lastRender>>

ShaderFiles == {"vert", "frag"}

\* the texts the shader files can hold, as version numbers
Sources == 1..MaxSources

\* a file of src/shaders is created or deleted by the user
FsChange(f) ==
    /\ status = "running"
    /\ files' = [files EXCEPT ![f] = ~@]
    /\ UNCHANGED <<now, started, resumes, window, windowsCreated, windowSize, gpu,
                   pipelinesCreated, shader_rx, sent, last_reload, status,
                   panicMsg, redraw, log, closeRequested, lastRender>>

\* the user saves a new text in the shader files
FsEdit(v) ==
    /\ status = "running"
    /\ v # files.text
    /\ files' = [files EXCEPT !.text = v]
    /\ UNCHANGED <<now, started, resumes, window, windowsCreated, windowSize, gpu,
                   pipelinesCreated, shader_rx, sent, last_reload, status,
                   panicMsg, redraw, log, closeRequested, lastRender>>

(***************************************************************************)
(* App::default() and the specifications.                                  *)
(***************************************************************************)
Init ==
    /\ now = 0
    /\ started = FALSE
    /\ resumes = 0
    /\ window = 0
    /\ windowsCreated = 0
    /\ windowSize = [width |-> INITIAL_WIDTH, height |-> INITIAL_HEIGHT]
    /\ gpu = NoGpu
    /\ pipelinesCreated = 0
    /\ shader_rx = <<>>
    /\ sent = 0
    /\ last_reload = 0 - INITIAL_PAST_MS
    /\ files = [vert |-> TRUE, frag |-> TRUE, text |-> 1]
    /\ status = "running"
    /\ panicMsg = ""
    /\ redraw = FALSE
    /\ log = <<>>
    /\ closeRequested = FALSE
    /\ lastRender = NoRender

\* the shader watch and the life cycle of the application
Next ==
    \/ \E cause \in {"Init", "Poll"} : NewEvents(cause)
    \/ \E adapter \in AdapterResults : Resumed(adapter)
    \/ \E ev \in FsEvents : WatcherSend(ev)
    \/ \E f \in ShaderFiles : FsChange(f)
    \/ \E d \in TickSteps : Tick(d)

Spec == Init /\ [][Next]_vars

\* rendering, resizing and closing
NextRender ==
    \/ NewEvents("Init")
    \/ \E adapter \in AdapterResults : Resumed(adapter)
    \/ CloseRequested
    \/ \E acquired \in AcquireResults : RedrawRequested(acquired)
    \/ \E size \in WindowSizes : Resized(size)
    \/ \E delta \in CameraScrollDeltas : MouseWheel(delta)

SpecRender == Init /\ [][NextRender]_vars

\* mouse input
NextCamera ==
    \/ NewEvents("Init")
    \/ Resumed("Ok")
    \/ \E state \in ElementStates, button \in MouseButtons : MouseInput(state, button)
    \/ \E x \in CursorXs, y \in CursorYs : CursorMoved(x, y)
    \/ \E delta \in CameraScrollDeltas : MouseWheel(delta)

SpecCamera == Init /\ [][NextCamera]_vars

\* the mouse wheel, with every scroll delta
NextZoom ==
    \/ NewEvents("Init")
    \/ Resumed("Ok")
    \/ \E delta \in ScrollDeltas : MouseWheel(delta)

SpecZoom == Init /\ [][NextZoom]_vars

\* hot reload while the mouse is in use
NextReload ==
    \/ \E cause \in {"Init", "Poll"} : NewEvents(cause)
    \/ Resumed("Ok")
    \/ WatcherSend([kind |-> "ModifyData", path |-> "cube.vert.wgsl"])
    \/ \E d \in TickSteps : Tick(d)
    \/ \E state \in ElementStates : MouseInput(state, "Left")
    \/ CursorMoved(100, 200)
    \/ \E v \in Sources : FsEdit(v)

SpecReload == Init /\ [][NextReload]_vars

\* what the watcher sends at time t, with the time of sending noted on it
SentAt(t) ==
    { [kind |-> k, path |-> "cube.vert.wgsl", at |-> t] : k \in {"ModifyData", "Create"} }

\* the debounce: each event carries the time the watcher sent it
NextDebounce ==
    \/ \E cause \in {"Init", "Poll"} : NewEvents(cause)
    \/ Resumed("Ok")
    \/ \E ev \in SentAt(now) : WatcherSend(ev)
    \/ \E d \in TickSteps : Tick(d)

SpecDebounce == Init /\ [][NextDebounce]_vars

\* the debounce while shader files come and go
NextSkip ==
    \/ \E cause \in {"Init", "Poll"} : NewEvents(cause)
    \/ Resumed("Ok")
    \/ WatcherSend([kind |-> "ModifyData", path |-> "cube.vert.wgsl"])
    \/ \E f \in ShaderFiles : FsChange(f)
    \/ \E d \in TickSteps : Tick(d)

SpecSkip == Init /\ [][NextSkip]_vars

\* the event filter: events of every kind and path, the shader files in place
NextFilter ==
    \/ \E cause \in {"Init", "Poll"} : NewEvents(cause)
    \/ Resumed("Ok")
    \/ \E ev \in FsEvents : WatcherSend(ev)
    \/ \E d \in TickSteps : Tick(d)

SpecFilter == Init /\ [][NextFilter]_vars


(***************************************************************************)
(* Properties of the shader watch (C1 and C2 checked under SpecDebounce,   *)
(* the others under Spec).                                                 *)
(***************************************************************************)
Qualifying(i) == log[i].ev.kind = "ModifyData"
Called(i)     == log[i].step = "called"
Discarded(i)  == log[i].step = "debounced"

\* C1: of two qualifying events handled less than 200 ms apart at most one
\* leads to a call of reload_shader_pipeline; an event handled less than
\* 200 ms after one that passed the debounce check is discarded; and no
\* pipeline is ever built except by a render-state creation or by the
\* handling of an event that passed the check (no trailing reload).
C1_Debounce ==
    /\ \A i, j \in DOMAIN log :
         (i < j /\ Qualifying(i) /\ Qualifying(j) /\ log[j].t - log[i].t < DEBOUNCE_MS)
            => /\ ~(Called(i) /\ Called(j))
               /\ (~Discarded(i) => Discarded(j))
    /\ pipelinesCreated <= resumes + Cardinality({i \in DOMAIN log : Called(i)})

\* two qualifying events 100 ms apart: the first reloaded, the second was discarded
C1_Witness ==
    \E i, j \in DOMAIN log :
        /\ i < j /\ Qualifying(i) /\ Qualifying(j)
        /\ log[j].t - log[i].t < DEBOUNCE_MS /\ log[j].t > log[i].t
        /\ Called(i) /\ log[i].readable /\ Discarded(j)
        /\ status = "running"

\* C2: a qualifying event handled more than 200 ms after every earlier
\* qualifying event (the first one included: last_reload starts one second in
\* the past) passes the debounce check, and calls reload_shader_pipeline when
\* the render state is ready and both shader files exist; so two events more
\* than 200 ms apart give two reloads.
C2_IndependentReloads ==
    \A j \in DOMAIN log :
        ( /\ Qualifying(j)
          /\ \A i \in DOMAIN log : (i < j /\ Qualifying(i)) => log[j].t - log[i].t > DEBOUNCE_MS )
        => /\ ~Discarded(j)
           /\ (log[j].has_gpu /\ log[j].readable) => Called(j)

\* two qualifying events more than 200 ms apart, each of which reloaded
C2_Witness ==
    \E i, j \in DOMAIN log :
        /\ i < j /\ Qualifying(i) /\ Qualifying(j)
        /\ log[j].t - log[i].t > DEBOUNCE_MS
        /\ Called(i) /\ log[i].readable /\ Called(j) /\ log[j].readable
        /\ gpu # NoGpu /\ pipelinesCreated = 3

\* C3: reload_shader_pipeline with a missing shader file returns an error and
\* swaps nothing: the application runs on and the render state is unchanged.
C3_MissingFileReturnsError ==
    [][ ( /\ Len(log') > Len(log)
          /\ \E i \in (Len(log) + 1)..Len(log') : log'[i].step = "called" /\ ~log'[i].readable )
        => (status' = "running" /\ gpu' = gpu) ]_vars

\* C4: a shader reload error is not fatal: the process is never dead after a
\* reload that found a shader file missing.
C4_ReloadErrorNonFatal ==
    ~( /\ status = "panicked"
       /\ log # <<>>
       /\ log[Len(log)].step = "called"
       /\ ~log[Len(log)].readable )

\* C5: reload_shader_pipeline is never called while one of the two shader
\* files it reads is absent.
C5_NoReloadWhileAbsent ==
    \A i \in DOMAIN log : Called(i) => log[i].readable

(***************************************************************************)
(* Properties of rendering and of the life cycle (checked under            *)
(* SpecRender).                                                            *)
(***************************************************************************)
\* C6: a surface-outdated or surface-lost error at frame acquisition does not
\* crash the application.
C6_AcquireErrorRecoverable ==
    (lastRender # NoRender /\ lastRender.acquired \in {"Outdated", "Lost"})
        => status # "panicked"

\* C7: at every render call the surface configuration and the depth buffer
\* have the size of the window.
C7_RenderSizesMatch ==
    lastRender # NoRender
        => /\ lastRender.config = lastRender.window
           /\ lastRender.depth = lastRender.window

\* C8: a close request exits the event loop whatever the state of the
\* application, and the loop exits for no other reason.
C8_CloseExits ==
    /\ closeRequested => status = "exited"
    /\ status = "exited" => closeRequested

\* C9: when the creation of the render state fails on resume the process
\* terminates: it never runs the loop resumed and without a render state.
C9_InitFailureAborts ==
    (resumes > 0 /\ gpu = NoGpu) => status # "running"

(***************************************************************************)
(* Properties of the camera (checked under SpecCamera).                    *)
(***************************************************************************)
\* C10: the pitch of the camera is within [-89 degrees, 89 degrees] after
\* every mouse-button, cursor-move and scroll event.
C10_PitchClamped ==
    gpu # NoGpu => gpu.camera.pitch \in (0 - PITCH_LIMIT)..PITCH_LIMIT

\* a drag has run into the upper limit
C10_Witness ==
    /\ gpu # NoGpu
    /\ gpu.dragging
    /\ gpu.camera.pitch = PITCH_LIMIT
    /\ gpu.last_mouse_pos[2] = 200


(***************************************************************************)
(* Properties of the zoom (checked under SpecZoom).                        *)
(***************************************************************************)
\* 1.0 - raw_scroll * zoom_speed is zero or negative
ScaleNotPositive(delta) ==
    raw_scroll(delta) * ZOOM_SPEED_PCT >= 100 * PIXELS_PER_LINE

\* C11: the distance of the camera is at least 0.1 after every mouse-wheel
\* event, whatever the sign of the scroll; a scroll whose scale factor is
\* zero or negative leaves the distance at exactly 0.1.
C11_DistanceFloor ==
    /\ [](gpu # NoGpu => gpu.camera.distance >= MIN_DISTANCE)
    /\ [][ \A delta \in ScrollDeltas :
             (gpu # NoGpu /\ MouseWheel(delta) /\ ScaleNotPositive(delta))
                => gpu'.camera.distance = MIN_DISTANCE ]_vars

\* the distance has been driven to the floor and the camera zoomed out again
C11_Witness ==
    /\ gpu # NoGpu
    /\ gpu.camera.distance = 2 * MIN_DISTANCE

\* C12: a scroll that is not negative never increases the distance; from
\* distance 5.0 one line gives 4.5; a positive scroll makes the distance
\* strictly smaller until it is 0.1, where it stays.
C12_ZoomInMonotone ==
    [][ \A delta \in ScrollDeltas :
          (gpu # NoGpu /\ MouseWheel(delta) /\ delta.y >= 0)
             => /\ gpu'.camera.distance <= gpu.camera.distance
                /\ (delta.y > 0 /\ gpu.camera.distance > MIN_DISTANCE)
                      => gpu'.camera.distance < gpu.camera.distance
                /\ gpu.camera.distance = MIN_DISTANCE
                      => gpu'.camera.distance = MIN_DISTANCE
                /\ (gpu.camera.distance = 5000 /\ delta = [type |-> "LineDelta", y |-> 1])
                      => gpu'.camera.distance = 4500 ]_vars

\* one line of scroll from the initial distance 5.0
C12_Witness ==
    /\ gpu # NoGpu
    /\ gpu.camera.distance = 4500


(***************************************************************************)
(* Properties of the drag (checked under SpecCamera).                      *)
(***************************************************************************)
\* C13: a cursor move while the drag flag is clear leaves yaw, pitch and
\* distance unchanged.
C13_NoDragNoTurn ==
    [][ \A x \in CursorXs, y \in CursorYs :
          (gpu # NoGpu /\ ~gpu.dragging /\ CursorMoved(x, y))
             => gpu'.camera = gpu.camera ]_vars

\* the cursor has moved away from the origin with the flag clear and the
\* camera is where Camera::default put it
C13_Witness ==
    /\ gpu # NoGpu
    /\ ~gpu.dragging
    /\ gpu.last_mouse_pos = <<100, 200>>
    /\ gpu.camera.yaw = 0
    /\ gpu.camera.pitch = 0

\* C14: the drag flag is false when the render state is created, a left press
\* sets it, a left release clears it, a press or release of another button
\* leaves it as it is, and nothing else changes it.
C14_DragFlag ==
    [][ /\ \A state \in ElementStates :
             (gpu # NoGpu /\ MouseInput(state, "Left"))
                => gpu'.dragging = (state = "Pressed")
        /\ \A state \in ElementStates, button \in MouseButtons \ {"Left"} :
             (gpu # NoGpu /\ MouseInput(state, button))
                => gpu'.dragging = gpu.dragging
        /\ (pipelinesCreated' > pipelinesCreated /\ resumes' > resumes)
                => ~gpu'.dragging
        /\ (gpu # NoGpu /\ gpu' # NoGpu /\ gpu'.dragging # gpu.dragging)
                => \/ \E state \in ElementStates : MouseInput(state, "Left")
                   \/ resumes' > resumes ]_vars

\* the left button is held down
C14_Witness ==
    /\ gpu # NoGpu
    /\ gpu.dragging

\* C15: while dragging, a cursor move changes yaw by -delta_x * 0.01 and pitch
\* by -delta_y * 0.01, the pitch then clamped, where delta is the last cursor
\* position minus the new one; from yaw 0 and pitch 0 a drag of delta_x = 100,
\* delta_y = 0 gives yaw -1.0 radian and pitch 0.
C15_DragTurns ==
    [][ \A x \in CursorXs, y \in CursorYs :
          (gpu # NoGpu /\ gpu.dragging /\ CursorMoved(x, y))
             => LET delta_x == gpu.last_mouse_pos[1] - x
                    delta_y == gpu.last_mouse_pos[2] - y
                    turned  == gpu.camera.pitch - delta_y * SENSITIVITY
                IN  /\ gpu'.camera.yaw = gpu.camera.yaw - delta_x * SENSITIVITY
                    /\ turned \in (0 - PITCH_LIMIT)..PITCH_LIMIT
                          => gpu'.camera.pitch = turned
                    /\ turned > PITCH_LIMIT => gpu'.camera.pitch = PITCH_LIMIT
                    /\ turned < 0 - PITCH_LIMIT => gpu'.camera.pitch = 0 - PITCH_LIMIT
                    /\ ( /\ gpu.camera.yaw = 0 /\ gpu.camera.pitch = 0
                         /\ delta_x = 100 /\ delta_y = 0 )
                          => (gpu'.camera.yaw = -10000 /\ gpu'.camera.pitch = 0) ]_vars

\* a drag of delta_x = 100 from yaw 0 has been made
C15_Witness ==
    /\ gpu # NoGpu
    /\ gpu.dragging
    /\ gpu.last_mouse_pos = <<0, 0>>
    /\ gpu.camera.yaw = -10000
    /\ gpu.camera.pitch = 0


(***************************************************************************)
(* Properties of the event filter (C16 checked under Spec, C17 under       *)
(* SpecFilter).                                                            *)
(***************************************************************************)
\* the event passed the debounce check: last_reload was set to its time
Passed(i) == log[i].step \in {"skipped", "unwrap_gpu", "called"}

\* more than 200 ms after every earlier event that passed the check
OutsideWindow(j) ==
    \A i \in DOMAIN log : (i < j /\ Passed(i)) => log[j].t - log[i].t > DEBOUNCE_MS

\* C16: an event for a file other than the shader never leads to a reload
\* and never starts a debounce window.
C16_OnlyShaderPath ==
    \A i \in DOMAIN log :
        log[i].ev.path # "cube.vert.wgsl" => (~Called(i) /\ ~Passed(i))

\* C17 (as stated): events of the kinds modify, create and remove on the
\* shader path all reach the debounce check, and outside the debounce window
\* each of them leads to a reload attempt.
C17_ThreeKindsPass ==
    \A j \in DOMAIN log :
        (log[j].ev.path = "cube.vert.wgsl" /\ log[j].ev.kind \in EventKinds)
            => /\ log[j].step # "filtered"
               /\ OutsideWindow(j) => Passed(j)

\* C17 (amended): of the kinds modify, create and remove only data
\* modifications reach the debounce check, and outside the debounce window a
\* data modification leads to a reload attempt; create and remove events are
\* dropped by the filter.
C17_OnlyModifyDataPasses ==
    \A j \in DOMAIN log :
        /\ log[j].ev.kind \in {"Create", "Remove"} => log[j].step = "filtered"
        /\ log[j].ev.kind = "ModifyData"
              => /\ log[j].step # "filtered"
                 /\ OutsideWindow(j) => Passed(j)

\* a create event was dropped by the filter and a later data modification
\* led to a reload
C17_Witness ==
    \E i, j \in DOMAIN log :
        /\ i < j
        /\ log[i].ev.kind = "Create" /\ log[i].step = "filtered"
        /\ log[j].ev.kind = "ModifyData" /\ Called(j) /\ log[j].readable
        /\ status = "running"


(***************************************************************************)
(* Properties of the life cycle (checked under SpecRender).                *)
(***************************************************************************)
\* C18: at most one window is ever created.
C18_OneWindow ==
    windowsCreated <= 1

\* C19: once the render state is present no event replaces it by a new one
\* or resets it to absent, and a resume leaves it (camera and input state
\* included) as it is.
C19_RenderStateLives ==
    [][ gpu # NoGpu
          => /\ gpu' # NoGpu
             /\ gpu'.surface = gpu.surface
             /\ resumes' > resumes => gpu' = gpu ]_vars

(***************************************************************************)
(* Properties of the hot reload (checked under SpecReload).                *)
(***************************************************************************)
\* C20: a successful reload puts a new pipeline in place and changes no other
\* field of the render state.
C20_ReloadOnlyPipeline ==
    [][ ( /\ gpu # NoGpu
          /\ \E cause \in {"Init", "Poll"} : NewEvents(cause)
          /\ \E i \in (Len(log) + 1)..Len(log') : log'[i].step = "called" /\ log'[i].readable )
        => /\ gpu' # NoGpu
           /\ gpu'.pipeline # gpu.pipeline
           /\ gpu' = [gpu EXCEPT !.pipeline = gpu'.pipeline]
           /\ status' = "running" ]_vars

\* a reload has been made on a render state whose drag flag, cursor position
\* and camera are no longer those of its creation
C20_Witness ==
    /\ gpu # NoGpu
    /\ \E i \in DOMAIN log : Called(i) /\ log[i].readable
    /\ gpu.pipeline.id > 1
    /\ gpu.dragging
    /\ gpu.last_mouse_pos = <<100, 200>>
    /\ gpu.camera.yaw # CameraDefault.yaw
    /\ gpu.camera.pitch # CameraDefault.pitch
    /\ status = "running"

(***************************************************************************)
(* The pipeline of the render state (checked under SpecReload).            *)
(***************************************************************************)
\* the bindings the shaders declare: number, stage, kind, bytes
DeclaredBindings ==
    << <<0, "VERTEX",   "Uniform", 64>>,
       <<1, "VERTEX",   "Uniform", 64>>,
       <<2, "FRAGMENT", "Uniform", 32>>,
       <<3, "FRAGMENT", "Texture", 0>>,
       <<4, "FRAGMENT", "Sampler", 0>> >>

LayoutIs(layout, table) ==
    /\ Len(layout) = Len(table)
    /\ \A k \in DOMAIN layout :
         /\ layout[k].binding = table[k][1]
         /\ layout[k].visibility = table[k][2]
         /\ layout[k].ty = table[k][3]
         /\ layout[k].min_binding_size = table[k][4]

GroupFits(layout, group) ==
    /\ Len(layout) = Len(group.entries)
    /\ \A k \in DOMAIN layout :
         /\ layout[k].binding = group.entries[k].binding
         /\ layout[k].ty = group.entries[k].ty
         /\ layout[k].min_binding_size = group.entries[k].size

PipelineContent(g) == [g EXCEPT !.pipeline.id = 0]

\* C22: with the shader text unchanged, a second reload leaves the render
\* state as the first left it (a pipeline from the same text, layout and
\* surface format; only the pipeline object is a new one): both for the
\* function applied twice to any reachable render state and for a reload
\* handled by new_events on a pipeline built from the text on disk.
C22_ReloadIdempotent ==
    /\ [](gpu # NoGpu =>
            LET once  == reload_shader_pipeline(gpu, pipelinesCreated + 1, files)
                twice == reload_shader_pipeline(once, pipelinesCreated + 2, files)
            IN  PipelineContent(twice) = PipelineContent(once))
    /\ [][ ( /\ gpu # NoGpu
             /\ gpu.pipeline.vs.source = files.text
             /\ gpu.pipeline.fs.source = files.text
             /\ \E cause \in {"Init", "Poll"} : NewEvents(cause)
             /\ \E i \in (Len(log) + 1)..Len(log') : log'[i].step = "called" /\ log'[i].readable )
           => /\ gpu' # NoGpu
              /\ PipelineContent(gpu') = PipelineContent(gpu) ]_vars

\* two reloads were made one after the other from the same edited text
C22_Witness ==
    /\ gpu # NoGpu
    /\ status = "running"
    /\ gpu.pipeline.id > 2
    /\ gpu.pipeline.vs.source = files.text
    /\ files.text # 1
    /\ Len(log) >= 2
    /\ Called(Len(log)) /\ log[Len(log)].readable
    /\ Called(Len(log) - 1) /\ log[Len(log) - 1].readable

(***************************************************************************)
(* The frame loop (checked under SpecRender).                              *)
(***************************************************************************)
\* C23: every render that completes asks for the next frame: a redraw event
\* handled with a render state, the render not cut short, leaves a redraw
\* request pending; and so does every state in which the application runs
\* with a render state, which keeps the frames coming until the window closes.
C23_RenderRequestsNext ==
    /\ []((status = "running" /\ gpu # NoGpu) => redraw)
    /\ [][ ( /\ gpu # NoGpu
             /\ \E acquired \in AcquireResults : RedrawRequested(acquired)
             /\ status' = "running" )
           => /\ redraw'
              /\ lastRender'.steps[Len(lastRender'.steps)].op = "request_redraw" ]_vars

\* a frame has been rendered to the end and the next one is asked for
C23_Witness ==
    /\ lastRender # NoRender
    /\ lastRender.acquired = "Ok"
    /\ status = "running"
    /\ gpu # NoGpu
    /\ redraw

\* position of a call in the calls of the last render
StepOf(op) == CHOOSE k \in DOMAIN lastRender.steps : lastRender.steps[k].op = op

RenderOps == {"get_current_texture", "render_pass", "write_buffer", "submit",
              "present", "request_redraw"}

\* C24: a render call that gets its frame makes each of its calls once and in
\* this order: acquire the frame, encode the pass (clearing colour and depth,
\* one indexed draw of all the indices), write the camera block from the
\* camera as it is at the call, submit, present, ask for a redraw; so the
\* write comes before the submit and the present after it.
C24_RenderOrder ==
    /\ []( (lastRender # NoRender /\ lastRender.acquired = "Ok") =>
             /\ \A op \in RenderOps :
                  Cardinality({k \in DOMAIN lastRender.steps : lastRender.steps[k].op = op}) = 1
             /\ Len(lastRender.steps) = Cardinality(RenderOps)
             /\ StepOf("get_current_texture") < StepOf("render_pass")
             /\ StepOf("render_pass") < StepOf("write_buffer")
             /\ StepOf("write_buffer") < StepOf("submit")
             /\ StepOf("submit") < StepOf("present")
             /\ StepOf("present") < StepOf("request_redraw")
             /\ LET pass == lastRender.steps[StepOf("render_pass")]
                IN  /\ pass.clear_color = "RED"
                    /\ pass.clear_depth = 1
                    /\ Len(pass.draws) = 1
                    /\ pass.draws[1] = [first |-> 0, end |-> NUM_INDICES] )
    /\ [][ (gpu # NoGpu /\ RedrawRequested("Ok"))
           => lastRender'.steps[StepOf("write_buffer")'].camera = gpu.camera ]_vars

\* a frame has been rendered with the camera moved off its first distance
C24_Witness ==
    /\ lastRender # NoRender
    /\ lastRender.acquired = "Ok"
    /\ lastRender.camera.distance # CameraDefault.distance
    /\ lastRender.steps[StepOf("write_buffer")].camera = lastRender.camera

(***************************************************************************)
(* The drain of the event queue (checked under Spec).                      *)
(***************************************************************************)
\* C25: a call of new_events consumes every event that was queued when it
\* began, oldest first, and leaves the queue empty.
C25_DrainConsumesAll ==
    [][ (\E cause \in {"Init", "Poll"} : NewEvents(cause))
        => /\ shader_rx' = <<>>
           /\ Len(log') = Len(log) + Len(shader_rx)
           /\ \A k \in 1..Len(shader_rx) : log'[Len(log) + k].ev = shader_rx[k] ]_vars

\* C26: the handling of a file-system event never unwraps a render state or
\* a window that is not there: no event is handled up to the reload without a
\* render state, and the process never dies of an unwrap of None.
C26_FsEventNeedsNoGpu ==
    /\ panicMsg # PanicUnwrapNone
    /\ \A i \in DOMAIN log : log[i].step # "unwrap_gpu"

(***************************************************************************)
(* The debounce clock (checked under SpecDebounce, where every event       *)
(* carries the time the watcher sent it; C29 under SpecSkip).              *)
(***************************************************************************)
\* C27 as stated: the qualifying events drained in one call of new_events
\* cause at most one reload.
C27_OneReloadPerDrain ==
    [][ (\E cause \in {"Init", "Poll"} : NewEvents(cause))
        => Cardinality({i \in (Len(log) + 1)..Len(log') : log'[i].step = "called"}) <= 1 ]_vars

\* the time at which the last event before j that passed the check was handled
LastPassBefore(j) ==
    LET S == {i \in 1..(j - 1) : Passed(i)}
    IN  IF S = {} THEN 0 - INITIAL_PAST_MS
        ELSE log[CHOOSE i \in S : \A k \in S : k <= i].t

\* C27: the debounce clock is the time of handling: a qualifying event passes
\* the check exactly when it is handled more than 200 ms after the handling of
\* the last event that passed, and of two qualifying events handled within
\* 200 ms of each other at most one reloads, whenever the watcher sent them.
C27_ProcessingClock ==
    /\ \A j \in DOMAIN log :
         Qualifying(j) => (Passed(j) <=> log[j].t - LastPassBefore(j) > DEBOUNCE_MS)
    /\ \A i, j \in DOMAIN log :
         (i < j /\ Qualifying(i) /\ Qualifying(j) /\ log[j].t - log[i].t <= DEBOUNCE_MS)
            => ~(Called(i) /\ Called(j))

\* two events sent more than 200 ms apart and handled together: one reload
C27_Witness ==
    \E i, j \in DOMAIN log :
        /\ i < j /\ Qualifying(i) /\ Qualifying(j)
        /\ log[j].ev.at - log[i].ev.at > DEBOUNCE_MS
        /\ log[j].t = log[i].t
        /\ Called(i) /\ log[i].readable /\ Discarded(j)

\* C28: last_reload changes only at the handling of a Modify(Data) event that
\* passes the debounce check, and then to the time of that handling: it is
\* always the time the last such event was handled, events of other kinds and
\* discarded events leave it as it is, and it never decreases.
C28_LastReloadOnlyOnPass ==
    /\ [](last_reload = LastPassBefore(Len(log) + 1))
    /\ [](\A i \in DOMAIN log : Passed(i) => Qualifying(i))
    /\ [][ /\ last_reload' >= last_reload
           /\ last_reload' # last_reload =>
                \E i \in (Len(log) + 1)..Len(log') :
                    /\ log'[i].ev.kind = "ModifyData"
                    /\ log'[i].step \in {"skipped", "unwrap_gpu", "called"}
                    /\ log'[i].t = last_reload'
           /\ (\A i \in (Len(log) + 1)..Len(log') : log'[i].step \in {"filtered", "debounced"})
                => last_reload' = last_reload ]_vars

\* an event was discarded after the one that passed, later on the clock, and
\* last_reload is still the time of the one that passed
C28_Witness ==
    \E i, j \in DOMAIN log :
        /\ i < j
        /\ Passed(i) /\ last_reload = log[i].t
        /\ Discarded(j) /\ log[j].t > log[i].t

\* C29: an event that passes the debounce check sets last_reload before the
\* shader files are looked for: after a reload skipped for want of a .wgsl
\* file last_reload is at least the time of the skipped one, and a
\* qualifying event handled within 200 ms of it is discarded.
C29_SkippedOpensWindow ==
    \A i \in DOMAIN log :
        log[i].step = "skipped" =>
            /\ last_reload >= log[i].t
            /\ \A j \in DOMAIN log :
                 (i < j /\ Qualifying(j) /\ log[j].t - log[i].t <= DEBOUNCE_MS)
                    => Discarded(j)

\* a reload was skipped, the files came back and the event for them, handled
\* within 200 ms, was discarded
C29_Witness ==
    \E i, j \in DOMAIN log :
        /\ i < j /\ log[i].step = "skipped"
        /\ Qualifying(j) /\ log[j].t - log[i].t <= DEBOUNCE_MS
        /\ log[j].t > log[i].t
        /\ log[j].readable /\ Discarded(j)

(***************************************************************************)
(* The cursor position kept by the render state (checked under            *)
(* SpecCamera).                                                            *)
(***************************************************************************)
\* C30: with a render state, every cursor move sets last_mouse_pos to the
\* position of the cursor, dragging or not, so that a move made while
\* dragging turns the camera by the difference to the position of the move
\* before it; mouse-button and scroll events leave last_mouse_pos as it is.
C30_LastMousePos ==
    [][ /\ \A x \in CursorXs, y \in CursorYs :
             (gpu # NoGpu /\ CursorMoved(x, y))
                => /\ gpu'.last_mouse_pos = <<x, y>>
                   /\ gpu.dragging =>
                        gpu'.camera.yaw =
                            gpu.camera.yaw - (gpu.last_mouse_pos[1] - x) * SENSITIVITY
        /\ \A state \in ElementStates, button \in MouseButtons :
             (gpu # NoGpu /\ MouseInput(state, button))
                => gpu'.last_mouse_pos = gpu.last_mouse_pos
        /\ \A delta \in CameraScrollDeltas :
             (gpu # NoGpu /\ MouseWheel(delta))
                => gpu'.last_mouse_pos = gpu.last_mouse_pos ]_vars

\* the cursor went to (100, 200) with the flag clear (the pitch is still 0),
\* then the button was pressed and the first move of the drag, to (0, 200),
\* turned the camera by the 100 pixels between the two
C30_Witness ==
    /\ gpu # NoGpu
    /\ gpu.dragging
    /\ gpu.last_mouse_pos = <<0, 200>>
    /\ gpu.camera.yaw = 0 - 100 * SENSITIVITY
    /\ gpu.camera.pitch = 0

====
